---- MODULE Spec2Model ----
(***************************************************************************)
(* Model of the dual-transport client of src/src/services/websocket.ts     *)
(* (class WebSocketService): the connection manager, the request           *)
(* correlator and the facade methods with their stateless fallback.        *)
(*                                                                         *)
(* The socket.io channel is the environment.  A channel is "opening"       *)
(* after io(), "open" after it emitted connect, "dead" once the client     *)
(* called socket.disconnect() on it or the server severed it, and          *)
(* "thrown" when io() itself raised.  A channel lost at network level goes *)
(* back to "opening" (the library reconnects on its own).  Whether         *)
(* socket.disconnect() on an open channel emits "disconnect" to the        *)
(* client's own handler before it returns is the library's choice (the     *)
(* socket.io-client releases do, with reason "io client disconnect"): the  *)
(* model takes both outcomes.                                              *)
(***************************************************************************)
EXTENDS Integers, Sequences, FiniteSets, TLC

\* ------------------------------------------------------------------ bounds
\* connect() calls that get past the already-connected guard
MaxChannels == 3
\* channels of the burst scenario: maxReconnectAttempts channels lost in a
\* row, one more whose loss makes handleReconnect give up, and one for the
\* connect() of a reconnection timer that fires afterwards
BurstChannels == 7
\* channels of the mode scenario
ModeChannels == 3
\* requests (one facade call each) and channels of the request scenario
MaxRequests == 3
ReqChannels == 1
\* facade calls, channel requests and channels of the facade scenario
MaxCalls == 1
ApiRequests == 2
ApiChannels == 2
\* facade calls and channel requests of the fallback scenario (its channels
\* are those of the facade scenario)
FallbackCalls == 2
FallbackRequests == 2
\* channel requests of the guard scenario (its calls and channels are those
\* of the fallback scenario)
GuardRequests == 3
\* inbound broadcasts delivered to listeners
MaxEmitted == 1
\* facade calls of the settling scenario: each may send two requests and
\* open one channel
LiveCalls == 1
\* channels of the subscription scenario, and adds counted per key
SubChannels == 2
MaxSubCalls == 2
\* facade calls, channel requests and channels of the outbound scenario
OutCalls == 2
OutRequests == 2
OutChannels == 2

\* ------------------------------------------------------- program constants
maxReconnectAttempts == 5

NoSocket == 0

\* topic keys: "sessions" and `market_analysis_${symbol}` for one symbol
Topics == {"sessions", "market_analysis_BTC"}

VARIABLES
    chan,               \* channel -> "none" | "opening" | "open" | "dead" | "thrown"
    socket,             \* this.socket: a channel, or NoSocket for null
    isConnected,        \* this.isConnected
    useWebSocket,       \* this.useWebSocket (TRUE = ChannelPreferred)
    reconnectAttempts,  \* this.reconnectAttempts
    connTimer,          \* channel -> connectionTimeout of the connect() that opened it
    connPromise,        \* channel -> promise returned by the connect() that opened it
    connOutcome,        \* channel -> the way that promise was settled
    reconnectTimers,    \* number of pending setTimeout callbacks of handleReconnect
    pendingRequests,    \* keys of this.pendingRequests
    reqPromise,         \* request id -> promise returned by sendRequest
    reqValue,           \* request id -> value or error message it settled with
    reqSettles,         \* request id -> calls of its resolve/reject made so far
    reqTimer,           \* request id -> its 30 000 ms setTimeout
    answered,           \* request ids an inbound message has carried so far
    emitted,            \* payloads handed to listeners by this.emit, in order
    call,               \* facade call -> its method, position and outcome
    connOrigin,         \* channel -> the caller of the connect() that opened it
                        \* (recorded for the channels in its domain)
    subscriptions,      \* this.subscriptions, in insertion order
    sentSubs,           \* topic keys whose subscribe message was written to a channel
    subCalls            \* topic key -> subscriptions.add(key) calls since its last delete

connVars == <<chan, socket, isConnected, useWebSocket, reconnectAttempts,
              connTimer, connPromise, connOutcome, reconnectTimers, connOrigin>>

subVars == <<subscriptions, sentSubs, subCalls>>

reqVars == <<pendingRequests, reqPromise, reqValue, reqSettles, reqTimer,
            answered>>

apiVars == <<pendingRequests, reqPromise, reqValue, reqSettles, reqTimer,
             answered, emitted, call, subscriptions, sentSubs, subCalls>>

vars == <<chan, socket, isConnected, useWebSocket, reconnectAttempts,
          connTimer, connPromise, connOutcome, reconnectTimers,
          pendingRequests, reqPromise, reqValue, reqSettles, reqTimer,
          answered, emitted, call, connOrigin, subscriptions, sentSubs,
          subCalls>>

Channels == DOMAIN chan
ReqIds == DOMAIN reqPromise
Calls == DOMAIN call

\* reconnection timers pending at once: one less than the channels modelled
MaxTimers == Cardinality(Channels) - 1

\* ------------------------------------------------------------------ helpers

\* the fields a disconnect handler reads and writes, as one record
Flags == [isConnected |-> isConnected, useWebSocket |-> useWebSocket,
          reconnectAttempts |-> reconnectAttempts,
          reconnectTimers |-> reconnectTimers]

\* socket?.connected
socketConnected == socket # NoSocket /\ chan[socket] = "open"

\* the guard of connect(): already connected, return at once
alreadyConnected == isConnected /\ socketConnected

\* the next unused channel slot (0 when the bound is exhausted)
freeSlot == IF \E c \in Channels : chan[c] = "none"
            THEN CHOOSE c \in Channels :
                   chan[c] = "none" /\ \A d \in Channels : d < c => chan[d] # "none"
            ELSE 0

\* handleReconnect() without its give-up branch
handleReconnectNoCap(f) ==
    [f EXCEPT !.reconnectAttempts = @ + 1, !.reconnectTimers = @ + 1]

\* handleReconnect(): give up at maxReconnectAttempts, else count and schedule
handleReconnect(f) ==
    IF f.reconnectAttempts >= maxReconnectAttempts
    THEN [f EXCEPT !.useWebSocket = FALSE]
    ELSE [f EXCEPT !.reconnectAttempts = @ + 1, !.reconnectTimers = @ + 1]

\* a "disconnect" handler that starts the reconnection whatever the reason
onDisconnectAlwaysRetries(reason, f) ==
    handleReconnect([f EXCEPT !.isConnected = FALSE])

\* the "disconnect" handler registered in connect()
onDisconnect(reason, f) ==
    IF reason = "io server disconnect"
    THEN [f EXCEPT !.isConnected = FALSE, !.useWebSocket = FALSE]
    ELSE handleReconnect([f EXCEPT !.isConnected = FALSE])

\* socket.disconnect() called by the client on channel c: when the library
\* emits (emits = TRUE) an open channel runs the "disconnect" handler with
\* reason "io client disconnect" synchronously; a channel that is not open
\* is dropped silently
socketDisconnect(c, f, emits) ==
    IF chan[c] = "open" /\ emits
    THEN onDisconnect("io client disconnect", f) ELSE f

\* the outcomes socket.disconnect() can have on the channel held
Emissions == BOOLEAN

\* settle the promise of attempt a (a second resolve of a promise is a no-op)
resolveConn(a, how) ==
    /\ connPromise' = [connPromise EXCEPT ![a] =
                          IF @ = "pending" THEN "resolved" ELSE @]
    /\ connOutcome' = [connOutcome EXCEPT ![a] =
                          IF connPromise[a] = "pending" THEN how ELSE @]

\* clearTimeout(connectionTimeout)
clearTimer(a) ==
    connTimer' = [connTimer EXCEPT ![a] = IF @ = "pending" THEN "cleared" ELSE @]

\* a reconnection timer can be added within the bound (a client-side or
\* network-level close of an open channel runs handleReconnect)
timerRoom == reconnectAttempts >= maxReconnectAttempts \/ reconnectTimers < MaxTimers

\* a facade call whose awaited promise has settled: its continuation is a
\* microtask, which runs before any other handler, timer or call
Runnable(k) ==
    \/ /\ call[k].pc = "awaitConn"
       /\ IF call[k].att = 0 THEN TRUE
          ELSE connPromise[call[k].att] # "pending"
    \/ /\ call[k].pc \in {"awaitReq1", "awaitReq2"}
       /\ reqPromise[call[k].rid] # "pending"
    \/ call[k].pc \in {"threw1", "threw2"}

Quiescent == \A k \in Calls : ~Runnable(k)

\* the client's public methods are called from synchronous code: a call may
\* follow, in the same block, facade calls whose sendRequest threw at once
\* and whose catch blocks are still to run
InBlock == \A k \in Calls : Runnable(k) => call[k].pc = "threw1"

\* a facade call: its method, its position ("threw1" and "threw2": the first
\* sendRequest, or the retry's, has thrown and the catch block is to run),
\* the request and the connect() it awaits (att = 0: a connect() that
\* returned at its guard), the channel requests it has sent, the request timeouts it has
\* waited out, the connect() calls it has made, the last error it caught, whether it made the stateless call,
\* and what it settled with
IdleCall == [method |-> "none", pc |-> "idle", rid |-> 0, att |-> 0, sent |-> 0,
             timeouts |-> 0, connects |-> 0, err |-> "none", fetched |-> FALSE,
             result |-> [st |-> "none", v |-> [k |-> "none", items |-> <<>>]]]

\* ------------------------------------------------------------------ Init
\* the state after the constructor, for nCh channels, nReq request ids and
\* nCall facade calls to come
Constructed(nCh, nReq, nCall) ==
    /\ chan = [c \in 1..nCh |-> "none"]
    /\ socket = NoSocket
    /\ isConnected = FALSE
    /\ useWebSocket = TRUE
    /\ reconnectAttempts = 0
    /\ connTimer = [c \in 1..nCh |-> "none"]
    /\ connPromise = [c \in 1..nCh |-> "none"]
    /\ connOutcome = [c \in 1..nCh |-> "none"]
    /\ reconnectTimers = 0
    /\ pendingRequests = {}
    /\ reqPromise = [r \in 1..nReq |-> "none"]
    /\ reqValue = [r \in 1..nReq |-> [k |-> "none", items |-> <<>>]]
    /\ reqSettles = [r \in 1..nReq |-> 0]
    /\ reqTimer = [r \in 1..nReq |-> "none"]
    /\ answered = {}
    /\ emitted = <<>>
    /\ call = [k \in 1..nCall |-> IdleCall]
    /\ subscriptions = <<>>
    /\ sentSubs = {}
    /\ subCalls = [t \in Topics |-> 0]

\* the same, the callers of connect() not being recorded
InitWith(nCh, nReq, nCall) ==
    /\ Constructed(nCh, nReq, nCall)
    /\ connOrigin = <<>>

Init == InitWith(MaxChannels, 0, 0)

\* ------------------------------------------------------- connection manager

\* connect() past its guard was called by who ("app", "timer", "health" or
\* "facade") and used channel slot a
openedBy(a, who) ==
    connOrigin' = IF a \in DOMAIN connOrigin
                  THEN [connOrigin EXCEPT ![a] = who] ELSE connOrigin

\* the body of connect() past its guard, io() returning a channel
openChannel(a) ==
    /\ chan' = [chan EXCEPT ![a] = "opening"]
    /\ socket' = a
    /\ connTimer' = [connTimer EXCEPT ![a] = "pending"]
    /\ connPromise' = [connPromise EXCEPT ![a] = "pending"]
    /\ UNCHANGED <<connOutcome, isConnected, useWebSocket, reconnectAttempts>>

\* the body of connect() past its guard, io() raising: the catch block
openThrows(a) ==
    /\ chan' = [chan EXCEPT ![a] = "thrown"]
    /\ useWebSocket' = FALSE
    /\ connPromise' = [connPromise EXCEPT ![a] = "resolved"]
    /\ connOutcome' = [connOutcome EXCEPT ![a] = "exception"]
    /\ UNCHANGED <<socket, connTimer, isConnected, reconnectAttempts>>

\* connect() called by the application
Connect ==
    /\ InBlock
    /\ ~alreadyConnected
    /\ freeSlot # 0
    /\ openChannel(freeSlot) \/ openThrows(freeSlot)
    /\ openedBy(freeSlot, "app")
    /\ UNCHANGED reconnectTimers
    /\ UNCHANGED apiVars

\* the connectionTimeout callback of attempt a
ConnectionTimeout(a) ==
    /\ Quiescent
    /\ connTimer[a] = "pending"
    /\ connTimer' = [connTimer EXCEPT ![a] = "fired"]
    /\ \E emits \in Emissions :
         /\ IF socket = NoSocket THEN TRUE
            ELSE (chan[socket] # "open" \/ ~emits \/ timerRoom)
         /\ LET f0 == [Flags EXCEPT !.useWebSocket = FALSE, !.isConnected = FALSE]
                f1 == IF socket # NoSocket
                      THEN socketDisconnect(socket, f0, emits) ELSE f0
            IN /\ isConnected' = f1.isConnected
               /\ useWebSocket' = f1.useWebSocket
               /\ reconnectAttempts' = f1.reconnectAttempts
               /\ reconnectTimers' = f1.reconnectTimers
    /\ chan' = IF socket # NoSocket THEN [chan EXCEPT ![socket] = "dead"] ELSE chan
    /\ socket' = NoSocket
    /\ resolveConn(a, "timeout")
    /\ UNCHANGED connOrigin
    /\ UNCHANGED apiVars

\* a "connect" handler that leaves the attempt counter alone
ChannelReadyKeepsCounter(c) ==
    /\ Quiescent
    /\ chan[c] = "opening"
    /\ chan' = [chan EXCEPT ![c] = "open"]
    /\ clearTimer(c)
    /\ isConnected' = TRUE
    /\ useWebSocket' = TRUE
    /\ resolveConn(c, "ready")
    /\ UNCHANGED <<socket, reconnectTimers, reconnectAttempts>>
    /\ UNCHANGED connOrigin
    /\ UNCHANGED apiVars

\* the channel emits "connect"
ChannelReady(c) ==
    /\ Quiescent
    /\ chan[c] = "opening"
    /\ chan' = [chan EXCEPT ![c] = "open"]
    /\ clearTimer(c)
    /\ isConnected' = TRUE
    /\ useWebSocket' = TRUE
    /\ reconnectAttempts' = 0
    /\ resolveConn(c, "ready")
    /\ UNCHANGED <<socket, reconnectTimers>>
    /\ UNCHANGED connOrigin
    /\ UNCHANGED apiVars

\* a "connect_error" handler that resolves without demoting the mode
ChannelConnectErrorKeepsMode(c) ==
    /\ Quiescent
    /\ chan[c] = "opening"
    /\ clearTimer(c)
    /\ isConnected' = FALSE
    /\ resolveConn(c, "connect_error")
    /\ UNCHANGED <<chan, socket, reconnectAttempts, reconnectTimers, useWebSocket>>
    /\ UNCHANGED connOrigin
    /\ UNCHANGED apiVars

\* the channel emits "connect_error"
ChannelConnectError(c) ==
    /\ Quiescent
    /\ chan[c] = "opening"
    /\ clearTimer(c)
    /\ isConnected' = FALSE
    /\ useWebSocket' = FALSE
    /\ resolveConn(c, "connect_error")
    /\ UNCHANGED <<chan, socket, reconnectAttempts, reconnectTimers>>
    /\ UNCHANGED connOrigin
    /\ UNCHANGED apiVars

\* the channel emits "error"
ChannelError(c) ==
    /\ Quiescent
    /\ chan[c] \in {"opening", "open"}
    /\ clearTimer(c)
    /\ isConnected' = FALSE
    /\ useWebSocket' = FALSE
    /\ resolveConn(c, "error")
    /\ UNCHANGED <<chan, socket, reconnectAttempts, reconnectTimers>>
    /\ UNCHANGED connOrigin
    /\ UNCHANGED apiVars

\* the channel emits "disconnect": severed by the server, or lost
ChannelClose(c, reason) ==
    /\ Quiescent
    /\ chan[c] = "open"
    /\ IF reason = "io server disconnect" THEN TRUE ELSE timerRoom
    /\ chan' = [chan EXCEPT ![c] =
                  IF reason = "io server disconnect" THEN "dead" ELSE "opening"]
    /\ LET f == onDisconnect(reason, Flags)
       IN /\ isConnected' = f.isConnected
          /\ useWebSocket' = f.useWebSocket
          /\ reconnectAttempts' = f.reconnectAttempts
          /\ reconnectTimers' = f.reconnectTimers
    /\ UNCHANGED <<socket, connTimer, connPromise, connOutcome>>
    /\ UNCHANGED connOrigin
    /\ UNCHANGED apiVars

\* the socket, the channels and the flags as they are
Held == [socket |-> socket, chan |-> chan, flags |-> Flags]

\* disconnect(): what it makes of the socket, the channels and the flags
disconnect(emits) ==
    IF socket # NoSocket
    THEN [socket |-> NoSocket,
          chan |-> [chan EXCEPT ![socket] = "dead"],
          flags |-> [socketDisconnect(socket, Flags, emits)
                       EXCEPT !.isConnected = FALSE]]
    ELSE Held

\* disconnect() called by the application
Disconnect ==
    /\ InBlock
    /\ \E emits \in Emissions :
         /\ IF socket = NoSocket THEN TRUE
            ELSE IF chan[socket] = "open" /\ emits THEN timerRoom ELSE TRUE
         /\ isConnected' = disconnect(emits).flags.isConnected
         /\ useWebSocket' = disconnect(emits).flags.useWebSocket
         /\ reconnectAttempts' = disconnect(emits).flags.reconnectAttempts
         /\ reconnectTimers' = disconnect(emits).flags.reconnectTimers
         /\ chan' = disconnect(emits).chan
         /\ socket' = disconnect(emits).socket
    /\ UNCHANGED <<connTimer, connPromise, connOutcome>>
    /\ UNCHANGED connOrigin
    /\ UNCHANGED apiVars

\* the setTimeout callback of handleReconnect: this.connect()
ReconnectTimer ==
    /\ Quiescent
    /\ reconnectTimers > 0
    /\ reconnectTimers' = reconnectTimers - 1
    /\ IF alreadyConnected
       THEN UNCHANGED <<chan, socket, isConnected, useWebSocket, connOrigin,
                        reconnectAttempts, connTimer, connPromise, connOutcome>>
       ELSE /\ freeSlot # 0
            /\ openChannel(freeSlot) \/ openThrows(freeSlot)
            /\ openedBy(freeSlot, "timer")
    /\ UNCHANGED apiVars

\* a health check that does not look at the mode
healthCheckDueAnyMode == ~isConnected \/ ~socketConnected

\* the condition under which a tick of the health check calls connect()
healthCheckDue == useWebSocket /\ (~isConnected \/ ~socketConnected)

\* one tick of the setInterval of the constructor
HealthCheck ==
    /\ Quiescent
    /\ healthCheckDue
    /\ freeSlot # 0
    /\ openChannel(freeSlot) \/ openThrows(freeSlot)
    /\ openedBy(freeSlot, "health")
    /\ UNCHANGED reconnectTimers
    /\ UNCHANGED apiVars

NextConn ==
    \/ Connect
    \/ \E a \in Channels : ConnectionTimeout(a)
    \/ \E c \in Channels : ChannelReady(c)
    \/ \E c \in Channels : ChannelConnectError(c)
    \/ \E c \in Channels : ChannelError(c)
    \/ \E c \in Channels : ChannelClose(c, "io server disconnect")
    \/ \E c \in Channels : ChannelClose(c, "transport close")
    \/ Disconnect
    \/ ReconnectTimer
    \/ HealthCheck

\* the connection manager alone: no facade call is made
Spec == Init /\ [][NextConn]_vars

\* the mode scenario: the connection manager, the caller of every connect()
\* being recorded
InitMode ==
    /\ Constructed(ModeChannels, 0, 0)
    /\ connOrigin = [c \in 1..ModeChannels |-> "none"]

NextMode ==
    \/ Connect
    \/ \E a \in Channels : ConnectionTimeout(a)
    \/ \E c \in Channels : ChannelReady(c)
    \/ \E c \in Channels : ChannelConnectError(c)
    \/ \E c \in Channels : ChannelError(c)
    \/ \E c \in Channels : ChannelClose(c, "io server disconnect")
    \/ \E c \in Channels : ChannelClose(c, "transport close")
    \/ Disconnect
    \/ ReconnectTimer
    \/ HealthCheck

SpecMode == InitMode /\ [][NextMode]_vars

\* the burst scenario: the application calls connect() while channels are
\* opening, the health check ticks, the channels report ready and are then
\* lost or severed, and the reconnection timers of the losses fire
InitBurst == InitWith(BurstChannels, 0, 0)

NextBurst ==
    \/ Connect
    \/ HealthCheck
    \/ ReconnectTimer
    \/ \E c \in Channels : ChannelReady(c)
    \/ \E c \in Channels : ChannelClose(c, "io server disconnect")
    \/ \E c \in Channels : ChannelClose(c, "transport close")

SpecBurst == InitBurst /\ [][NextBurst]_vars

\* ------------------------------------------------------ subscription registry

\* the subscription set and what was written to the channel for it
Subs == [subscriptions |-> subscriptions, sentSubs |-> sentSubs,
         subCalls |-> subCalls]

\* the elements of a Set kept in insertion order
members(s) == {s[i] : i \in 1..Len(s)}

\* an add that appends also when the key is there already
setAddAlways(s, key) == Append(s, key)

\* Set.prototype.add
setAdd(s, key) == IF key \in members(s) THEN s ELSE Append(s, key)

\* Set.prototype.delete
setDelete(s, key) == SelectSeq(s, LAMBDA x : x # key)

\* the precondition of sendMessage (line 183, negated)
canSendMessage == useWebSocket /\ isConnected /\ socket # NoSocket

\* a subscribe that does not look at the mode
subscribeAnyMode(key, st) ==
    [subscriptions |-> setAdd(st.subscriptions, key),
     sentSubs |-> IF canSendMessage THEN st.sentSubs \cup {key}
                                    ELSE st.sentSubs,
     subCalls |-> [st.subCalls EXCEPT ![key] = @ + 1]]

\* subscribeToSessions(), subscribeToMarketAnalysis(symbol), ...
subscribe(key, st) ==
    IF useWebSocket
    THEN [subscriptions |-> setAdd(st.subscriptions, key),
          sentSubs |-> IF canSendMessage THEN st.sentSubs \cup {key}
                                         ELSE st.sentSubs,
          subCalls |-> [st.subCalls EXCEPT ![key] = @ + 1]]
    ELSE st

\* unsubscribeFromSessions(), unsubscribeFromMarketAnalysis(symbol), ...
unsubscribe(key, st) ==
    IF useWebSocket
    THEN [subscriptions |-> setDelete(st.subscriptions, key),
          sentSubs |-> st.sentSubs \ {key},
          subCalls |-> [st.subCalls EXCEPT ![key] = 0]]
    ELSE st

applySubs(st) ==
    /\ subscriptions' = st.subscriptions
    /\ sentSubs' = st.sentSubs
    /\ subCalls' = st.subCalls

\* a component subscribes to a topic
Subscribe(key) ==
    /\ InBlock
    /\ subCalls[key] < MaxSubCalls
    /\ applySubs(subscribe(key, Subs))
    /\ UNCHANGED connVars
    /\ UNCHANGED <<reqVars, emitted, call>>

\* a component unsubscribes from a topic
Unsubscribe(key) ==
    /\ InBlock
    /\ applySubs(unsubscribe(key, Subs))
    /\ UNCHANGED connVars
    /\ UNCHANGED <<reqVars, emitted, call>>

\* the subscription scenario: components subscribe and unsubscribe while the
\* channel is opened, refused, severed and dropped
InitSub == InitWith(SubChannels, 0, 0)

NextSub ==
    \/ Connect
    \/ \E c \in Channels : ChannelReady(c)
    \/ \E c \in Channels : ChannelConnectError(c)
    \/ \E c \in Channels : ChannelClose(c, "io server disconnect")
    \/ Disconnect
    \/ \E key \in Topics : Subscribe(key)
    \/ \E key \in Topics : Unsubscribe(key)

SpecSub == InitSub /\ [][NextSub]_vars

\* ------------------------------------------------------------------ values
\* A value carried by a response, a stateless reply, a promise or an event
\* is [k, items]: "list" is an array and "results" an object {results: [...]},
\* with items "A" (an array of analysis items), "E" (an empty array), "W" (an
\* object {analysis: [...]}), "N" (an object without analysis), "Z" (null);
\* "null" is a falsy payload, "void" is undefined, "error" an Error with its
\* message, "none" no value.
Val(k, items) == [k |-> k, items |-> items]
None == Val("none", <<>>)
Null == Val("null", <<>>)
Void == Val("void", <<>>)
Err(msg) == Val("error", <<msg>>)
TypeError == Err("TypeError")

\* "Socket.IO не підключений", the message thrown by sendRequest
NotConnected == "Socket.IO not connected"
RequestTimeoutMsg == "Request timeout"

\* the payloads the two transports are given to return
DataValues == {Val("list", <<"A">>), Val("list", <<"W">>), Null,
               Val("results", <<"W">>)}

\* the truthiness JavaScript gives a payload
truthy(v) == v.k \notin {"none", "null", "void"}

\* item => item.analysis || [] and the item branches of lines 399-407
mapSeq(items, F(_)) == [i \in 1..Len(items) |-> F(items[i])]
listItem(x) == IF x \in {"A", "E"} THEN x ELSE IF x = "W" THEN "A" ELSE "E"
resultsItem(x) == IF x = "W" THEN "A" ELSE "E"

\* the normalisation of the first channel response of getMarketAnalysisBatch
normalizeChannel(v) ==
    IF v.k = "list" THEN Val("list", mapSeq(v.items, listItem))
    ELSE IF v.k = "results"
         THEN IF \E i \in 1..Len(v.items) : v.items[i] = "Z"
              THEN TypeError
              ELSE Val("list", mapSeq(v.items, resultsItem))
         ELSE Val("list", <<>>)

\* data.results.map(...) on the body of the stateless reply
normalizeFetch(v) ==
    IF v.k = "results" /\ \A i \in 1..Len(v.items) : v.items[i] # "Z"
    THEN Val("list", mapSeq(v.items, resultsItem))
    ELSE TypeError

\* ------------------------------------------------------- request correlator

\* the request correlator's state and the listeners' log, as one record
ReqState == [pendingRequests |-> pendingRequests, reqPromise |-> reqPromise,
             reqValue |-> reqValue, reqSettles |-> reqSettles,
             emitted |-> emitted]

\* resolve(v) or reject(v) of request id is called: the promise takes the
\* first settlement only
settle(st, id, how, v) ==
    [st EXCEPT !.reqSettles[id] = @ + 1,
               !.reqPromise[id] = IF @ = "pending" THEN how ELSE @,
               !.reqValue[id] = IF st.reqPromise[id] = "pending" THEN v ELSE @]

\* new Error(data.error || "Unknown error")
carriedError(m) == IF m.error \in {"none", ""} THEN "Unknown error" ELSE m.error

\* handleMessage with the pending-entry test left out
handleMessageNoHas(m, st) ==
    IF m.id # 0 /\ m.id \in DOMAIN st.reqPromise /\ st.reqPromise[m.id] # "none"
    THEN LET st1 == [st EXCEPT !.pendingRequests = @ \ {m.id}]
         IN IF m.success
            THEN settle(st1, m.id, "resolved", m.data)
            ELSE settle(st1, m.id, "rejected", Err(carriedError(m)))
    ELSE IF m.type # "none" /\ truthy(m.data)
         THEN [st EXCEPT !.emitted = Append(@, [type |-> m.type, data |-> m.data])]
         ELSE st

\* handleMessage that settles the oldest pending request, whatever the id
handleMessageAnyId(m, st) ==
    IF m.id # 0 /\ st.pendingRequests # {}
    THEN LET x == CHOOSE r \in st.pendingRequests :
                        \A q \in st.pendingRequests : r <= q
             st1 == [st EXCEPT !.pendingRequests = @ \ {x}]
         IN IF m.success
            THEN settle(st1, x, "resolved", m.data)
            ELSE settle(st1, x, "rejected", Err(carriedError(m)))
    ELSE IF m.type # "none" /\ truthy(m.data)
         THEN [st EXCEPT !.emitted = Append(@, [type |-> m.type, data |-> m.data])]
         ELSE st

\* handleMessage(data)
handleMessage(m, st) ==
    IF m.id # 0 /\ m.id \in st.pendingRequests
    THEN LET st1 == [st EXCEPT !.pendingRequests = @ \ {m.id}]
         IN IF m.success
            THEN settle(st1, m.id, "resolved", m.data)
            ELSE settle(st1, m.id, "rejected", Err(carriedError(m)))
    ELSE IF m.type # "none" /\ truthy(m.data)
         THEN [st EXCEPT !.emitted = Append(@, [type |-> m.type, data |-> m.data])]
         ELSE st

\* a request timeout that rejects without looking at the pending map
requestTimeoutNoHas(id, st) ==
    settle([st EXCEPT !.pendingRequests = @ \ {id}], id, "rejected",
           Err(RequestTimeoutMsg))

\* a request timer whose callback does nothing
requestTimeoutLost(id, st) == st

\* the setTimeout callback of sendRequest
requestTimeout(id, st) ==
    IF id \in st.pendingRequests
    THEN settle([st EXCEPT !.pendingRequests = @ \ {id}], id, "rejected",
                Err(RequestTimeoutMsg))
    ELSE st

\* request ids handed out so far, and the next one
Issued == {r \in ReqIds : reqPromise[r] # "none"}
freeReq == IF Issued = ReqIds THEN 0 ELSE Cardinality(Issued) + 1
\* an id no request of this client carries
ForeignId == MaxRequests + ApiRequests + 1

\* inbound messages: responses {id, success, data?, error?}, broadcasts
\* {type, data} and messages carrying both an id and a type
Msg(id, success, data, error, type) ==
    [id |-> id, success |-> success, data |-> data, error |-> error, type |-> type]
ResponsesOf(ids, D) ==
    {Msg(id, TRUE, d, "none", "none") : id \in ids, d \in D}
    \cup {Msg(id, FALSE, None, e, "none") : id \in ids, e \in {"none", "", "E1"}}
Responses == ResponsesOf(Issued \cup {ForeignId}, DataValues)
Broadcasts ==
    {Msg(0, FALSE, d, "none", "sessions") : d \in {Val("list", <<"A">>), Null}}
\* the messages of the request scenario
ReqData == {Val("list", <<"A">>), Val("list", <<"W">>)}
ReqMessages == ResponsesOf(Issued \cup {ForeignId}, ReqData) \cup Broadcasts

applyReqState(st) ==
    /\ pendingRequests' = st.pendingRequests
    /\ reqPromise' = st.reqPromise
    /\ reqValue' = st.reqValue
    /\ reqSettles' = st.reqSettles
    /\ emitted' = st.emitted

\* the channel emits "message"
HandleMessage(m) ==
    /\ Quiescent
    /\ \E c \in Channels : chan[c] = "open"
    /\ Len(handleMessage(m, ReqState).emitted) <= MaxEmitted
    /\ applyReqState(handleMessage(m, ReqState))
    /\ answered' = IF m.id \in ReqIds THEN answered \cup {m.id} ELSE answered
    /\ UNCHANGED <<reqTimer, call>>
    /\ UNCHANGED subVars
    /\ UNCHANGED connVars

\* the 30 000 ms timer of request id fires
RequestTimeout(id) ==
    /\ Quiescent
    /\ reqTimer[id] = "pending"
    /\ reqTimer' = [reqTimer EXCEPT ![id] = "fired"]
    /\ applyReqState(requestTimeout(id, ReqState))
    /\ UNCHANGED <<call, answered>>
    /\ UNCHANGED subVars
    /\ UNCHANGED connVars

\* ------------------------------------------------------------ facade methods
\* getAllSessions stands for the methods that reconnect and retry (with
\* getTotalBalance), getMarketAnalysisBatch adds its normalisation,
\* getSessionStatus stands for the methods that fall back at once and
\* closeSession for those of them that return nothing;
\* getActivePositionsCount reads a property of its payload inside the try.
Methods == {"getAllSessions", "getMarketAnalysisBatch", "getSessionStatus",
            "closeSession", "getActivePositionsCount"}

\* the methods whose catch block calls connect() and retries
retries(m) == m \in {"getAllSessions", "getMarketAnalysisBatch"}

\* a precondition of sendRequest that does not look at the mode
sendGuardNoMode == isConnected /\ socket # NoSocket

\* the precondition of sendRequest (line 197, negated)
sendGuard == useWebSocket /\ isConnected /\ socket # NoSocket

\* sendRequest past its guard: register the entry, write the message,
\* start the timer
registerRequest(k, cl, pcNext, e) ==
    /\ freeReq # 0
    /\ pendingRequests' = pendingRequests \cup {freeReq}
    /\ reqPromise' = [reqPromise EXCEPT ![freeReq] = "pending"]
    /\ reqTimer' = [reqTimer EXCEPT ![freeReq] = "pending"]
    /\ call' = [cl EXCEPT ![k].pc = pcNext, ![k].rid = freeReq, ![k].err = e,
                          ![k].sent = @ + 1]
    /\ UNCHANGED <<reqValue, reqSettles, answered, emitted>>
    /\ UNCHANGED subVars
    /\ UNCHANGED connVars

\* the stateless call is issued
fetchIssued(k, cl, e) ==
    call' = [cl EXCEPT ![k].pc = "awaitFetch", ![k].fetched = TRUE, ![k].err = e]

\* a catch block that rethrows what it caught instead of falling back
fallbackRethrows(k, cl, e) ==
    /\ call' = [cl EXCEPT ![k].pc = "done",
                          ![k].result = [st |-> "rejected", v |-> Err(e)]]
    /\ UNCHANGED <<reqVars, emitted>>
    /\ UNCHANGED subVars
    /\ UNCHANGED connVars

\* a catch block that goes on to fetch without demoting the mode
fallbackKeepsMode(k, cl, e) ==
    /\ fetchIssued(k, cl, e)
    /\ UNCHANGED <<reqVars, emitted>>
    /\ UNCHANGED subVars
    /\ UNCHANGED connVars

\* this.useWebSocket = false at the end of the catch block, then fetch
fallback(k, cl, e) ==
    /\ useWebSocket' = FALSE
    /\ fetchIssued(k, cl, e)
    /\ UNCHANGED <<chan, socket, isConnected, reconnectAttempts, connTimer,
                   connPromise, connOutcome, reconnectTimers, connOrigin>>
    /\ UNCHANGED <<reqVars, emitted>>
    /\ UNCHANGED subVars

\* the method settles
finish(k, how, v) ==
    /\ call' = [call EXCEPT ![k].pc = "done", ![k].result = [st |-> how, v |-> v]]
    /\ UNCHANGED <<reqVars, emitted>>
    /\ UNCHANGED subVars
    /\ UNCHANGED connVars

\* sendRequest throws at its guard: being async it returns a rejected
\* promise, and the catch block of the caller runs as a microtask
sendRequestThrows(k, cl, pcNext) ==
    /\ call' = [cl EXCEPT ![k].pc = pcNext]
    /\ UNCHANGED <<reqVars, emitted>>
    /\ UNCHANGED subVars
    /\ UNCHANGED connVars

\* after await this.connect(): retry once if connected (lines 310-313); an
\* error of the retry's sendRequest is caught by the inner catch
retryAfterConnect(k, cl, e) ==
    IF isConnected
    THEN IF sendGuard
         THEN registerRequest(k, cl, "awaitReq2", e)
         ELSE sendRequestThrows(k, cl, "threw2")
    ELSE fallback(k, cl, e)

\* the catch block of a facade method, entered with the message e
catchOuter(k, cl, e) ==
    IF retries(cl[k].method) /\ e \in {RequestTimeoutMsg, NotConnected}
    THEN LET cc == [cl EXCEPT ![k].connects = @ + 1]
         IN IF alreadyConnected
            THEN /\ call' = [cc EXCEPT ![k].pc = "awaitConn",
                                       ![k].att = 0, ![k].err = e]
                 /\ UNCHANGED <<reqVars, emitted>>
                 /\ UNCHANGED subVars
                 /\ UNCHANGED connVars
            ELSE /\ freeSlot # 0
                 /\ openChannel(freeSlot) \/ openThrows(freeSlot)
                 /\ call' = [cc EXCEPT ![k].pc = "awaitConn",
                                       ![k].att = freeSlot, ![k].err = e]
                 /\ openedBy(freeSlot, "facade")
                 /\ UNCHANGED <<reconnectTimers, reqVars, emitted>>
                 /\ UNCHANGED subVars
    ELSE fallback(k, cl, e)

\* result.count, data.count: a TypeError on null and undefined, and
\* undefined on the payloads modelled, none of which has a count
countOf(v) == IF truthy(v) THEN Void ELSE TypeError

\* what a method makes of the data of its first channel response
returned(m, v) ==
    IF m = "getMarketAnalysisBatch" THEN normalizeChannel(v)
    ELSE IF m = "getActivePositionsCount" THEN countOf(v)
    ELSE IF m = "closeSession" THEN Void ELSE v

\* what a method makes of the body of a successful stateless reply
returnedFetch(m, v) ==
    IF m = "getMarketAnalysisBatch" THEN normalizeFetch(v)
    ELSE IF m = "getActivePositionsCount" THEN countOf(v)
    ELSE IF m = "closeSession" THEN Void ELSE v

\* a facade method is called
FacadeCall(k, m) ==
    /\ InBlock
    /\ call[k].pc = "idle"
    /\ \A j \in Calls : j < k => call[j].pc # "idle"
    /\ LET cl == [call EXCEPT ![k].method = m]
       IN IF useWebSocket /\ isConnected
          THEN IF sendGuard
               THEN registerRequest(k, cl, "awaitReq1", "none")
               ELSE sendRequestThrows(k, cl, "threw1")
          ELSE /\ fetchIssued(k, cl, "none")
               /\ UNCHANGED <<reqVars, emitted>>
               /\ UNCHANGED subVars
               /\ UNCHANGED connVars

\* the calls, call k having waited until the request it awaits was rejected:
\* for the whole 30 000 ms if the rejection is the timer's
waited(k) ==
    IF reqTimer[call[k].rid] = "fired"
       /\ reqValue[call[k].rid] = Err(RequestTimeoutMsg)
    THEN [call EXCEPT ![k].timeouts = @ + 1]
    ELSE call

\* the continuation of a facade method whose awaited promise has settled
Resume(k) ==
    /\ Runnable(k)
    /\ LET c == call[k]
       IN CASE c.pc = "awaitReq1" ->
                 IF reqPromise[c.rid] = "resolved"
                 THEN IF returned(c.method, reqValue[c.rid]) = TypeError
                      THEN catchOuter(k, call, "TypeError")
                      ELSE finish(k, "resolved", returned(c.method, reqValue[c.rid]))
                 ELSE catchOuter(k, waited(k), reqValue[c.rid].items[1])
            [] c.pc = "threw1" -> catchOuter(k, call, NotConnected)
            [] c.pc = "awaitConn" -> retryAfterConnect(k, call, c.err)
            [] c.pc = "threw2" -> fallback(k, call, NotConnected)
            [] c.pc = "awaitReq2" ->
                 IF reqPromise[c.rid] = "resolved"
                 THEN finish(k, "resolved", reqValue[c.rid])
                 ELSE fallback(k, waited(k), reqValue[c.rid].items[1])

\* fetch() rejects when no reply arrives: the network is down, the server
\* is unreachable or the request is blocked
FetchFailed == Err("Failed to fetch")

\* response.json() rejects when the body is not JSON
JsonSyntaxError == Err("SyntaxError")

\* the methods whose stateless path reads the body of the reply
readsBody(m) == m # "closeSession"

\* the facade method waits for the body of the reply it received
bodyAwaited(k) ==
    /\ call' = [call EXCEPT ![k].pc = "awaitJson"]
    /\ UNCHANGED <<reqVars, emitted>>
    /\ UNCHANGED subVars
    /\ UNCHANGED connVars

\* fetch() resolves with a reply and the method tests its status: it throws
\* on a failure status, and on a success status asks for the body, or
\* returns at once when it reads none
FetchReturn(k, ok) ==
    /\ Quiescent
    /\ call[k].pc = "awaitFetch"
    /\ IF ~ok
       THEN finish(k, "rejected", Err("HttpError"))
       ELSE IF readsBody(call[k].method)
            THEN bodyAwaited(k)
            ELSE finish(k, "resolved", Void)

\* fetch() rejects and the method rejects with its error
FetchRejects(k) ==
    /\ Quiescent
    /\ call[k].pc = "awaitFetch"
    /\ finish(k, "rejected", FetchFailed)

\* response.json() resolves with the parsed body and the method returns
\* what it makes of it
JsonReturn(k, body) ==
    /\ Quiescent
    /\ call[k].pc = "awaitJson"
    /\ IF returnedFetch(call[k].method, body) = TypeError
       THEN finish(k, "rejected", TypeError)
       ELSE finish(k, "resolved", returnedFetch(call[k].method, body))

\* response.json() rejects and the method rejects with its error
JsonRejects(k) ==
    /\ Quiescent
    /\ call[k].pc = "awaitJson"
    /\ finish(k, "rejected", JsonSyntaxError)

\* the request scenario: one channel, several facade calls at a time, the
\* server answering in any order or not at all
InitReq == InitWith(ReqChannels, MaxRequests, MaxRequests)

NextReq ==
    \/ Connect
    \/ \E c \in Channels : ChannelReady(c)
    \/ \E k \in Calls : FacadeCall(k, "getSessionStatus")
    \/ \E k \in Calls : Resume(k)
    \/ \E k \in Calls, ok \in BOOLEAN : FetchReturn(k, ok)
    \/ \E k \in Calls : FetchRejects(k)
    \/ \E k \in Calls : JsonReturn(k, Val("list", <<"A">>))
    \/ \E k \in Calls : JsonRejects(k)
    \/ \E m \in ReqMessages : HandleMessage(m)
    \/ \E id \in ReqIds : RequestTimeout(id)

SpecReq == InitReq /\ [][NextReq]_vars

\* the facade scenario: every kind of facade method, a channel that can be
\* lost, time out or be dropped, and the stateless call
InitApi == InitWith(ApiChannels, ApiRequests, MaxCalls)

NextApi ==
    \/ Connect
    \/ \E a \in Channels : ConnectionTimeout(a)
    \/ \E c \in Channels : ChannelReady(c)
    \/ \E c \in Channels : ChannelClose(c, "transport close")
    \/ Disconnect
    \/ \E k \in Calls, m \in Methods : FacadeCall(k, m)
    \/ \E k \in Calls : Resume(k)
    \/ \E k \in Calls, ok \in BOOLEAN : FetchReturn(k, ok)
    \/ \E k \in Calls : FetchRejects(k)
    \/ \E k \in Calls, body \in DataValues : JsonReturn(k, body)
    \/ \E k \in Calls : JsonRejects(k)
    \/ \E m \in Responses : HandleMessage(m)
    \/ \E id \in ReqIds : RequestTimeout(id)

SpecApi == InitApi /\ [][NextApi]_vars

\* the settling scenario: the application connects once; the channel may be
\* refused, severed, time out or be dropped by disconnect() at any moment and
\* the server may answer or not; timers fire, continuations run and the
\* stateless call returns
LiveRequests == 2 * LiveCalls
LiveChannels == LiveCalls + 1

InitLive == InitWith(LiveChannels, LiveRequests, LiveCalls)

\* connect() called by the application on start
AppConnect == chan[1] = "none" /\ Connect

\* the stateless call of facade call k moves on: fetch() settles, with a
\* reply of either status or with an error, and then response.json() does
FetchReturns(k) ==
    \/ \E ok \in BOOLEAN : FetchReturn(k, ok)
    \/ FetchRejects(k)
    \/ \E body \in DataValues : JsonReturn(k, body)
    \/ JsonRejects(k)

NextLive ==
    \/ AppConnect
    \/ \E a \in Channels : ConnectionTimeout(a)
    \/ \E c \in Channels : ChannelReady(c)
    \/ \E c \in Channels : ChannelConnectError(c)
    \/ \E c \in Channels : ChannelClose(c, "io server disconnect")
    \/ Disconnect
    \/ \E k \in Calls, m \in Methods : FacadeCall(k, m)
    \/ \E k \in Calls : Resume(k)
    \/ \E k \in Calls : FetchReturns(k)
    \/ \E m \in Responses : HandleMessage(m)
    \/ \E id \in ReqIds : RequestTimeout(id)

\* setTimeout callbacks run, continuations of settled promises run, and the
\* stateless call returns
FairLive ==
    /\ \A id \in 1..LiveRequests : WF_vars(RequestTimeout(id))
    /\ \A a \in 1..LiveChannels : WF_vars(ConnectionTimeout(a))
    /\ \A k \in 1..LiveCalls : WF_vars(Resume(k))
    /\ \A k \in 1..LiveCalls : WF_vars(FetchReturns(k))

SpecLive == InitLive /\ [][NextLive]_vars /\ FairLive

\* the fallback scenario: facade calls running side by side, one method that
\* reconnects and retries and one that falls back at once, over a channel
\* that can be lost, time out or be dropped
InitFallback == InitWith(ApiChannels, FallbackRequests, FallbackCalls)

FallbackMethods == {"getAllSessions", "getSessionStatus"}

NextFallback ==
    \/ Connect
    \/ \E a \in Channels : ConnectionTimeout(a)
    \/ \E c \in Channels : ChannelReady(c)
    \/ \E c \in Channels : ChannelClose(c, "transport close")
    \/ Disconnect
    \/ \E k \in Calls, m \in FallbackMethods : FacadeCall(k, m)
    \/ \E k \in Calls : Resume(k)
    \/ \E k \in Calls, ok \in BOOLEAN : FetchReturn(k, ok)
    \/ \E k \in Calls : FetchRejects(k)
    \/ \E k \in Calls : JsonReturn(k, Val("list", <<"A">>))
    \/ \E k \in Calls : JsonRejects(k)
    \/ \E m \in ResponsesOf(Issued, {Val("list", <<"A">>)}) : HandleMessage(m)
    \/ \E id \in ReqIds : RequestTimeout(id)

SpecFallback == InitFallback /\ [][NextFallback]_vars

\* the guard scenario: the calls of the fallback scenario with a request
\* more between them, so that one call retries after the other has sent a
\* request of its own and demoted the mode; the stateless call fails
InitGuard == InitWith(ApiChannels, GuardRequests, FallbackCalls)

NextGuard ==
    \/ Connect
    \/ \E a \in Channels : ConnectionTimeout(a)
    \/ \E c \in Channels : ChannelReady(c)
    \/ \E c \in Channels : ChannelClose(c, "transport close")
    \/ Disconnect
    \/ \E k \in Calls, m \in FallbackMethods : FacadeCall(k, m)
    \/ \E k \in Calls : Resume(k)
    \/ \E k \in Calls : FetchReturn(k, FALSE)
    \/ \E m \in ResponsesOf(Issued, {Val("list", <<"A">>)}) : HandleMessage(m)
    \/ \E id \in ReqIds : RequestTimeout(id)

SpecGuard == InitGuard /\ [][NextGuard]_vars

\* the outbound scenario: facade calls that fall back at once and components
\* that subscribe and unsubscribe, over a channel that the server may sever,
\* so that the mode is demoted both with and without an open channel
InitOut == InitWith(OutChannels, OutRequests, OutCalls)

OutMethods == {"getSessionStatus", "closeSession"}

NextOut ==
    \/ Connect
    \/ \E c \in Channels : ChannelReady(c)
    \/ \E c \in Channels : ChannelClose(c, "io server disconnect")
    \/ \E k \in Calls, m \in OutMethods : FacadeCall(k, m)
    \/ \E k \in Calls : Resume(k)
    \/ \E k \in Calls : FetchReturn(k, FALSE)
    \/ \E k \in Calls : FetchRejects(k)
    \/ \E id \in ReqIds : RequestTimeout(id)
    \/ \E key \in Topics : Subscribe(key)
    \/ \E key \in Topics : Unsubscribe(key)

SpecOut == InitOut /\ [][NextOut]_vars


\* ------------------------------------------------------------------ claims

\* attempts of connect() whose promise is still pending
InFlight == {a \in Channels : connPromise[a] = "pending"}

\* C1: a connect() called while an earlier connect() is in flight opens no
\* second channel: at most one channel-open attempt is in flight at a time.
C1_ConnectCoalesced == Cardinality(InFlight) <= 1

FailureWays == {"exception", "connect_error", "error", "timeout"}

\* attempt a fails in this step: io() raises, or its timer fires or is
\* cleared by a handler other than the one of "connect"
FailsNow(a) ==
    \/ chan[a] = "none" /\ chan'[a] = "thrown"
    \/ /\ connTimer[a] = "pending"
       /\ connTimer'[a] \in {"fired", "cleared"}
       /\ ~(chan[a] = "opening" /\ chan'[a] = "open")

\* C2: whichever way a channel-open attempt fails, the promise of its
\* connect() is resolved in that step, never rejected, and the mode is
\* FallbackOnly in the state in which it resolves.
C2_FailureResolvesInFallback ==
    [][\A a \in Channels :
          /\ connPromise'[a] # "rejected"
          /\ FailsNow(a) => connPromise'[a] = "resolved"
          /\ (connPromise[a] # "resolved" /\ connPromise'[a] = "resolved"
                /\ connOutcome'[a] \in FailureWays) => ~useWebSocket'
      ]_vars

\* three attempts failed in three ways, each promise resolved, mode FallbackOnly
C2_Witness ==
    /\ \E a \in Channels : connOutcome[a] = "timeout" /\ connPromise[a] = "resolved"
    /\ \E a \in Channels : connOutcome[a] = "connect_error" /\ connPromise[a] = "resolved"
    /\ \E a \in Channels : connOutcome[a] = "error" /\ connPromise[a] = "resolved"
    /\ ~useWebSocket

\* C3: when a channel reports ready (its timeout has not torn it down), the
\* step ends with isConnected, ChannelPreferred, the attempt counter at 0 and
\* the promise of its connect() resolved, whatever they were before.
C3_ReadyConnects ==
    [][\A c \in Channels :
          (chan[c] = "opening" /\ chan'[c] = "open") =>
              /\ isConnected'
              /\ useWebSocket'
              /\ reconnectAttempts' = 0
              /\ connPromise'[c] = "resolved"
      ]_vars

\* a channel whose attempt had failed with connect_error (mode demoted) is
\* open, a reconnection timer of an earlier loss (counter raised) is pending,
\* and the client is Connected, ChannelPreferred, counter 0
C3_Witness ==
    /\ \E c \in Channels : chan[c] = "open" /\ connOutcome[c] = "connect_error"
    /\ reconnectTimers > 0
    /\ isConnected /\ useWebSocket /\ reconnectAttempts = 0

\* the client has given up: the attempts are used up and the failure path
\* has demoted the mode
GaveUp ==
    /\ reconnectAttempts >= maxReconnectAttempts
    /\ ~useWebSocket
    /\ ~isConnected

\* a network-level loss of a channel (open, then opening again) when the
\* counter has reached maxReconnectAttempts demotes the mode to FallbackOnly,
\* schedules no reconnection timer, opens no channel and leaves the counter
GiveUpSchedulesNothing ==
    \A c \in Channels :
        (chan[c] = "open" /\ chan'[c] = "opening"
           /\ reconnectAttempts >= maxReconnectAttempts) =>
            /\ ~useWebSocket'
            /\ reconnectTimers' = reconnectTimers
            /\ reconnectAttempts' = reconnectAttempts
            /\ \A d \in Channels : chan[d] = "none" => chan'[d] = "none"

\* the mode was last written by handleReconnect giving up: the client has
\* given up, and neither an io() that raised nor a server-initiated close,
\* the other two writers of FallbackOnly in the burst scenario, has occurred
FailurePathGaveUp ==
    GaveUp /\ \A c \in Channels : chan[c] \notin {"thrown", "dead"}

\* in this step the callback of a reconnection timer runs
TimerFires == reconnectTimers' = reconnectTimers - 1

\* in this step connect() gets past its guard and calls io()
CallsIo == \E d \in Channels : chan[d] = "none" /\ chan'[d] # "none"

\* C10: once the counter has reached maxReconnectAttempts a further
\* network-level loss schedules nothing and demotes the mode to FallbackOnly,
\* and after the failure path has given up no reconnection timer calls
\* connect() (the tick of the health check changes nothing in that state).
C10_NoConnectAfterGiveUp ==
    /\ [][GiveUpSchedulesNothing]_vars
    /\ [][(FailurePathGaveUp /\ TimerFires) => ~CallsIo]_vars

\* what the correlator and the listeners hold for every request but x
OthersUntouched(st, x) ==
    \A r \in ReqIds \ {x} :
        /\ st.reqPromise[r] = reqPromise[r]
        /\ st.reqValue[r] = reqValue[r]
        /\ st.reqSettles[r] = reqSettles[r]
        /\ (r \in st.pendingRequests) = (r \in pendingRequests)

\* C4 (the handler): for every response that carries the id of a pending
\* request, handleMessage removes that entry alone, resolves that request
\* with the data carried (success) or rejects it with the message carried
\* ("Unknown error" when none or an empty one is carried), leaves every other
\* request as it was and emits nothing.
C4_HandlerSettlesOwnRequest ==
    \A m \in ResponsesOf(pendingRequests, DataValues) :
        LET st == handleMessage(m, ReqState)
        IN /\ st.pendingRequests = pendingRequests \ {m.id}
           /\ st.reqPromise[m.id] = IF m.success THEN "resolved" ELSE "rejected"
           /\ st.reqValue[m.id] =
                 IF m.success THEN m.data
                 ELSE IF m.error = "E1" THEN Err("E1") ELSE Err("Unknown error")
           /\ st.reqSettles[m.id] = 1
           /\ OthersUntouched(st, m.id)
           /\ st.emitted = emitted

\* C4 (the steps): a step in which a response takes an entry out of the
\* pending map settles the request of that entry, whose id the message
\* carried, and changes no other request.
C4_StepSettlesOwnRequest ==
    (reqTimer' = reqTimer /\ pendingRequests' # pendingRequests) =>
        \E x \in pendingRequests :
            /\ pendingRequests' = pendingRequests \ {x}
            /\ x \in answered'
            /\ reqPromise[x] = "pending" /\ reqPromise'[x] \in {"resolved", "rejected"}
            /\ \A r \in ReqIds \ {x} :
                  /\ reqPromise'[r] = reqPromise[r]
                  /\ reqValue'[r] = reqValue[r]
                  /\ reqSettles'[r] = reqSettles[r]

\* C4: with any number of requests pending and responses in any order, a
\* response with id X settles the request registered under X only.
C4_ResponseSettlesOnlyItsRequest ==
    [](C4_HandlerSettlesOwnRequest) /\ [][C4_StepSettlesOwnRequest]_vars

\* three requests were pending together; a later one is resolved with its
\* data, another rejected with its carried error, an earlier one still pending
C4_Witness ==
    \E a, b, c \in ReqIds :
        /\ a < b
        /\ a \in pendingRequests /\ reqPromise[a] = "pending"
        /\ reqPromise[b] = "resolved" /\ reqValue[b] = Val("list", <<"W">>)
        /\ reqPromise[c] = "rejected" /\ reqValue[c] = Err("E1")

\* C5: a dispatched request is settled at most once; it is in the pending map
\* exactly as long as it is unsettled; once its timer has fired it has been
\* settled exactly once, by the response or by the timeout, and is not in the map.
C5_SettledExactlyOnce ==
    \A r \in Issued :
        /\ reqSettles[r] <= 1
        /\ (r \in pendingRequests) = (reqSettles[r] = 0)
        /\ (reqPromise[r] = "pending") = (reqSettles[r] = 0)
        /\ reqTimer[r] = "fired" => (reqSettles[r] = 1 /\ r \notin pendingRequests)

\* one request was answered and its timer fired afterwards, another timed out
\* and was answered afterwards: each settled once
C5_Witness ==
    \E r, q \in Issued :
        /\ reqPromise[r] = "resolved" /\ reqTimer[r] = "fired" /\ reqSettles[r] = 1
        /\ reqValue[q] = Err(RequestTimeoutMsg) /\ q \in answered /\ reqSettles[q] = 1

\* request r was settled by its timeout
TimedOut(r) == reqTimer[r] = "fired" /\ reqValue[r] = Err(RequestTimeoutMsg)

\* C6: for a request that has timed out, handleMessage of any response with
\* its id changes nothing: not the promise, not the pending map, not the
\* listeners' log.
C6_LateResponseDiscarded ==
    \A r \in Issued : TimedOut(r) =>
        \A m \in ResponsesOf({r}, DataValues) : handleMessage(m, ReqState) = ReqState

\* a response arrived for a request that had timed out, and the request is
\* still rejected with the timeout, settled once
C6_Witness ==
    \E r \in Issued :
        /\ TimedOut(r) /\ r \in answered
        /\ reqPromise[r] = "rejected" /\ reqSettles[r] = 1
        /\ r \notin pendingRequests /\ emitted = <<>>

\* the bare transport errors
TransportErrors == {Err(RequestTimeoutMsg), Err(NotConnected)}

\* C7: a facade method settles without the stateless call only by returning
\* the data of a channel response; whenever its last channel request was
\* rejected or could not be sent, the stateless call has been made before it
\* settles, and it never rejects with a bare transport error.
C7_FallbackBeforeSettle ==
    \A k \in Calls : call[k].pc = "done" =>
        /\ ~call[k].fetched =>
              /\ call[k].result.st = "resolved"
              /\ call[k].rid # 0 /\ reqPromise[call[k].rid] = "resolved"
        /\ call[k].result.st = "rejected" =>
              /\ call[k].fetched
              /\ call[k].result.v \notin TransportErrors

\* a method whose request and whose retry both timed out has made the
\* stateless call and settled
C7_Witness ==
    \E k \in Calls :
        /\ call[k].pc = "done" /\ call[k].fetched
        /\ call[k].sent = 2 /\ TimedOut(call[k].rid)
        /\ call[k].err = RequestTimeoutMsg

\* C8: a facade method whose channel response carried success: false rejects
\* with the error message of that response.
C8_ServerRejectionSurfaces ==
    \A k \in Calls :
        (/\ call[k].pc = "done"
         /\ call[k].rid # 0
         /\ reqPromise[call[k].rid] = "rejected"
         /\ ~TimedOut(call[k].rid)) =>
            call[k].result = [st |-> "rejected", v |-> reqValue[call[k].rid]]

\* the one shape getMarketAnalysisBatch is to return: a list of lists
IsNormalized(v) ==
    v.k = "list" /\ \A i \in 1..Len(v.items) : v.items[i] \in {"A", "E"}

\* C9: whatever path getMarketAnalysisBatch returns by, what it returns is a
\* list of lists.
C9_BatchShapeNormalized ==
    \A k \in Calls :
        (/\ call[k].method = "getMarketAnalysisBatch"
         /\ call[k].pc = "done"
         /\ call[k].result.st = "resolved") => IsNormalized(call[k].result.v)

\* C11: once the client has given up, the next tick of the periodic health
\* check calls connect() again.
C11_HealthCheckAfterGiveUp == GaveUp => healthCheckDue

\* the mode goes from FallbackOnly to ChannelPreferred in this step
Promoted == ~useWebSocket /\ useWebSocket'

\* channel c reports ready in this step and thereby settles the connect()
\* that opened it, a call made by one of the callers in who
ReadySettles(c, who) ==
    /\ chan[c] = "opening" /\ chan'[c] = "open"
    /\ connPromise[c] = "pending"
    /\ connOrigin[c] \in who

\* C12: the mode is promoted only by the success of a connect() that the
\* periodic health check issued (the application's own connect() is not an
\* automatic path and is let through as well): never by the connect() of a
\* reconnection timer, nor by a late ready event of a channel whose connect()
\* has settled before.
C12_PromotedByHealthCheckOnly ==
    [][Promoted => \E c \in Channels : ReadySettles(c, {"health", "app"})]_vars

\* a request whose timer has fired without any response having come is
\* rejected with the timeout and out of the pending map
UnansweredTimesOut ==
    \A r \in Issued :
        (reqTimer[r] = "fired" /\ r \notin answered) =>
            (TimedOut(r) /\ reqPromise[r] = "rejected" /\ r \notin pendingRequests)

\* C13: every request dispatched is eventually settled and out of the pending
\* map, whatever happens to the channel meanwhile and whether or not a
\* response comes (without one it is rejected with the timeout), and every
\* facade call that was made eventually settles.
C13_EverythingSettles ==
    /\ [](UnansweredTimesOut)
    /\ \A r \in 1..LiveRequests :
          (r \in pendingRequests) ~>
              (r \notin pendingRequests /\ reqPromise[r] \in {"resolved", "rejected"})
    /\ \A k \in 1..LiveCalls : (call[k].pc # "idle") ~> (call[k].pc = "done")

\* a request was left without response on a channel that was then dropped;
\* it timed out and the facade call has settled
C13_Witness ==
    \E k \in Calls :
        /\ call[k].pc = "done" /\ call[k].rid # 0
        /\ TimedOut(call[k].rid) /\ call[k].rid \notin answered
        /\ socket = NoSocket /\ \A c \in Channels : chan[c] # "open"
        /\ pendingRequests = {}

\* C14: no facade call waits through more than one request timeout before it
\* settles.
C14_OneRequestTimeoutAtMost ==
    \A k \in Calls : call[k].timeouts <= 1

\* C15: whatever state disconnect() is called in, the client holds no channel
\* and is Disconnected after it, and when no channel is held it changes
\* nothing.
C15_DisconnectLeavesDisconnected ==
    \A emits \in Emissions :
        /\ disconnect(emits).socket = NoSocket
        /\ ~disconnect(emits).flags.isConnected
        /\ socket = NoSocket => disconnect(emits) = Held

\* the entries the subscription set s holds for key
entries(s, key) == Cardinality({i \in 1..Len(s) : s[i] = key})

\* C16: the subscription set holds at most one entry for a key, and a second
\* subscribe to a key leaves the set as the first subscribe left it, with
\* exactly one entry for the key (when the mode lets subscribe act at all).
C16_SubscribeIdempotent ==
    /\ \A key \in Topics : entries(subscriptions, key) <= 1
    /\ \A key \in Topics :
          LET once == subscribe(key, Subs)
              twice == subscribe(key, once)
          IN /\ twice.subscriptions = once.subscriptions
             /\ useWebSocket => entries(twice.subscriptions, key) = 1

\* a key was subscribed to twice and the set holds it once, next to another
C16_Witness ==
    \E key \in Topics :
        /\ subCalls[key] = 2
        /\ entries(subscriptions, key) = 1
        /\ Len(subscriptions) = 2

\* C17: after unsubscribe for a key, the key is not in the subscription set,
\* in every connection state and transport mode.
C17_UnsubscribeRemoves ==
    \A key \in Topics : key \notin members(unsubscribe(key, Subs).subscriptions)

\* C18: the subscription set never holds a key whose subscribe message was
\* not written to the channel.
C18_SubscribedOnlyIfSent ==
    \A key \in members(subscriptions) : key \in sentSubs

\* messages {type, data} without an id, or with an id that has no pending
\* entry, their payload a list or null
Unaddressed ==
    {Msg(id, FALSE, d, "none", "sessions") :
        id \in {0, ForeignId}, d \in {Val("list", <<"A">>), Null}}

\* C19: while a channel is open, every message {type, data} that carries no
\* id, or an id with no pending entry, is handed to the listeners of its type
\* whatever its payload, after the messages handed over before it.
C19_BroadcastDelivered ==
    (\E c \in Channels : chan[c] = "open") =>
        \A m \in Unaddressed :
            handleMessage(m, ReqState).emitted =
                Append(emitted, [type |-> m.type, data |-> m.data])

\* sendRequest may go ahead: the state is Connected and the mode is
\* ChannelPreferred
MaySend == isConnected /\ socket # NoSocket /\ useWebSocket

\* in this step a request is registered, its timer started or a request
\* counted as written to the channel
Dispatches ==
    \/ \E r \in ReqIds : reqPromise[r] = "none" /\ reqPromise'[r] # "none"
    \/ \E r \in ReqIds : reqTimer[r] = "none" /\ reqTimer'[r] # "none"
    \/ ~(pendingRequests' \subseteq pendingRequests)
    \/ \E k \in Calls : call'[k].sent # call[k].sent

\* in this step facade call k calls sendRequest: on being called, or for its
\* retry after connect() has returned
CallsSendRequest(k) ==
    \/ call[k].pc = "idle" /\ call'[k].pc # "idle" /\ useWebSocket /\ isConnected
    \/ call[k].pc = "awaitConn" /\ call'[k].pc # "awaitConn" /\ isConnected

\* the sendRequest that facade call k called has thrown
Threw(k) == call[k].pc \in {"threw1", "threw2"}

\* C20: a step taken while sendRequest may not go ahead dispatches nothing;
\* a sendRequest called in such a step has thrown when the step ends, and
\* the error the caller then catches is the transport-unavailable error.
C20_SendRequestFailsFast ==
    /\ [][~MaySend =>
            /\ ~Dispatches
            /\ \A k \in Calls : CallsSendRequest(k) => Threw(k)']_vars
    /\ [][\A k \in Calls :
            (Threw(k) /\ ~Threw(k)') => call'[k].err = NotConnected]_vars

\* a facade call whose first request timed out retried on the channel it
\* still held, after another call had demoted the mode: the retry's
\* sendRequest failed at once and the call went on to the stateless call
C20_Witness ==
    \E k \in Calls :
        /\ call[k].sent = 1 /\ call[k].timeouts = 1 /\ call[k].att = 0
        /\ call[k].err = NotConnected /\ call[k].fetched
        /\ Cardinality(Issued) <= 2

\* an open channel is severed by the server in this step (the client keeps
\* the socket it holds)
ServerCloses(c) == chan[c] = "open" /\ chan'[c] = "dead" /\ socket' = socket

\* an open channel is lost at network level in this step
NetworkLoses(c) == chan[c] = "open" /\ chan'[c] = "opening"

\* the reconnection procedure runs in this step: it counts the attempt and
\* schedules a timer, or gives up
ReconnectionInvoked ==
    IF reconnectAttempts < maxReconnectAttempts
    THEN /\ reconnectAttempts' = reconnectAttempts + 1
         /\ reconnectTimers' = reconnectTimers + 1
         /\ useWebSocket' = useWebSocket
    ELSE /\ reconnectAttempts' = reconnectAttempts
         /\ reconnectTimers' = reconnectTimers
         /\ ~useWebSocket'

\* C21: a close with the server-initiated reason leaves the client
\* Disconnected and FallbackOnly, schedules no reconnection and leaves the
\* attempt counter as it was; a close for another reason leaves it
\* Disconnected and runs the reconnection procedure.
C21_ServerCloseNoRetry ==
    [][\A c \in Channels :
          /\ ServerCloses(c) =>
                /\ ~isConnected' /\ ~useWebSocket'
                /\ reconnectTimers' = reconnectTimers
                /\ reconnectAttempts' = reconnectAttempts
          /\ NetworkLoses(c) => (~isConnected' /\ ReconnectionInvoked)]_vars

\* the channel held was severed by the server after another channel had been
\* lost: the attempt of that loss is still counted and its timer is the only
\* one pending
C21_Witness ==
    /\ socket # NoSocket
    /\ IF socket = NoSocket THEN FALSE ELSE chan[socket] = "dead"
    /\ ~isConnected /\ ~useWebSocket
    /\ reconnectAttempts = 1 /\ reconnectTimers = 1

\* the connect() that a reconnection timer made on channel c settles in this
\* step without the channel being open
ReconnectionFails(c) ==
    /\ connOrigin[c] = "timer"
    /\ connPromise[c] = "pending" /\ connPromise'[c] = "resolved"
    /\ chan'[c] # "open"

\* C22: when a scheduled reconnection attempt fails to open the channel and
\* the attempt counter is below maxReconnectAttempts, a further attempt is
\* scheduled.
C22_FailedAttemptReschedules ==
    [][\A c \in Channels :
          (ReconnectionFails(c) /\ reconnectAttempts < maxReconnectAttempts) =>
              reconnectTimers' = reconnectTimers + 1]_vars

\* C23: disconnect() does not start the reconnection procedure: whatever
\* state it is called in, it schedules no reconnection timer and leaves the
\* attempt counter as it was.
C23_DisconnectStartsNoReconnect ==
    \A emits \in Emissions :
        /\ disconnect(emits).flags.reconnectTimers = reconnectTimers
        /\ disconnect(emits).flags.reconnectAttempts = reconnectAttempts

\* in this step facade call k makes the stateless call after its channel path
\* has failed: after a request, a retry or a reconnection of its own, or on a
\* sendRequest that failed at once
FallsBack(k) ==
    /\ ~call[k].fetched /\ call'[k].fetched
    /\ call[k].pc # "idle" \/ (useWebSocket /\ isConnected)

\* C24: a facade call calls connect() at most once and sends at most two
\* requests over the channel, and when it makes the stateless call after its
\* channel path has failed, the mode is FallbackOnly by then.
C24_OneReconnectOneRetry ==
    /\ [](\A k \in Calls : call[k].connects <= 1 /\ call[k].sent <= 2)
    /\ [][\A k \in Calls : FallsBack(k) => ~useWebSocket']_vars

\* a facade call lost its channel, timed out, reconnected on a new channel,
\* retried, timed out again and made the stateless call in FallbackOnly
C24_Witness ==
    \E k \in Calls :
        /\ call[k].connects = 1 /\ call[k].att # 0
        /\ call[k].sent = 2 /\ call[k].timeouts = 2
        /\ call[k].pc = "awaitFetch" /\ ~useWebSocket

\* the state Connected: the flag is set and the channel held is open
Connected == isConnected /\ socket # NoSocket /\ chan[socket] = "open"

\* in this step a tick of the health check calls connect()
HealthCheckConnects ==
    \E a \in Channels : connOrigin[a] = "none" /\ connOrigin'[a] = "health"

\* C25: a tick of the health check calls connect() exactly when the mode is
\* ChannelPreferred and the state is not Connected; in every other state the
\* tick is no step at all.
C25_HealthCheckIffDue ==
    /\ [][HealthCheckConnects => (useWebSocket /\ ~Connected)]_vars
    /\ []((useWebSocket /\ ~Connected /\ freeSlot # 0) => ENABLED HealthCheck)
    /\ [](~(useWebSocket /\ ~Connected) => ~ENABLED HealthCheck)

\* the health check called connect() while the flag was set on a channel
\* that is no longer open, and the new channel is opening
C25_Witness ==
    /\ socket # NoSocket /\ connOrigin[socket] = "health" /\ chan[socket] = "opening"
    /\ isConnected /\ useWebSocket

\* C26: in every reachable state the reconnect-attempt counter lies between
\* 0 and maxReconnectAttempts, whatever the close events, timers, connects
\* and disconnects were.
C26_CounterInRange ==
    reconnectAttempts \in 0..maxReconnectAttempts

\* the counter stands at its maximum with a reconnection timer pending
C26_Witness ==
    reconnectAttempts = maxReconnectAttempts /\ reconnectTimers > 0

\* in this step the connection timeout of attempt a fires while the client
\* holds the channel of a later connect(), opening or open
StaleTimeoutFires(a) ==
    /\ connTimer[a] = "pending" /\ connTimer'[a] = "fired"
    /\ socket # NoSocket /\ socket # a
    /\ chan[socket] \in {"opening", "open"}

\* C27: the connection timeout of an earlier connect() leaves the channel of
\* a later connect() alone: the channel stays held and as it was, and the
\* mode is not demoted.
C27_TimeoutActsOnOwnAttempt ==
    [][\A a \in Channels :
         StaleTimeoutFires(a) =>
           /\ socket' = socket
           /\ chan'[socket] = chan[socket]
           /\ useWebSocket' = useWebSocket]_vars

\* C28: whenever the connected flag is set, the client holds a channel, and
\* that channel has reported ready and is still open.
C28_ConnectedFlagMeansOpenChannel ==
    isConnected => (socket # NoSocket /\ chan[socket] = "open")

\* the facade methods that change state on the remote service
StateChanging ==
    {"initializeSession", "closeSession", "analyzeAndTrade", "updateVolatilityCheck"}

\* C29: one call of a state-changing facade method submits its operation at
\* most once: it is never both written to the channel as a request and made
\* as a stateless call.
C29_SubmittedAtMostOnce ==
    \A k \in Calls :
        call[k].method \in StateChanging => ~(call[k].sent > 0 /\ call[k].fetched)

\* C30: in FallbackOnly nothing is written to the channel, open or not: no
\* facade call sends a request, no subscribe or unsubscribe message goes
\* out, and the subscription set stays as it is.
C30_FallbackOnlyWritesNothing ==
    [][~useWebSocket =>
         /\ \A k \in Calls : call'[k].sent = call[k].sent
         /\ pendingRequests' \subseteq pendingRequests
         /\ sentSubs' = sentSubs
         /\ subscriptions' = subscriptions]_vars

\* the first facade call wrote its request and fell back when it timed out;
\* the second was made in FallbackOnly with the one channel still open and
\* went straight to the stateless call, a topic being subscribed
C30_Witness ==
    /\ ~useWebSocket /\ isConnected
    /\ socket # NoSocket /\ chan[socket] = "open"
    /\ \A c \in Channels : c # socket => chan[c] = "none"
    /\ call[1].sent = 1 /\ call[1].fetched
    /\ call[2].sent = 0 /\ call[2].fetched /\ call[2].err = "none"
    /\ subscriptions # <<>>

====
